---------------------------- MODULE Spec2Model ----------------------------
(***************************************************************************)
(* A model of the client-side plugins service                              *)
(* (client/coral-framework/services/plugins.js) and of the mongoose        *)
(* Setting model of Talk.                                                  *)
(*                                                                         *)
(* JavaScript values are modelled as follows.                              *)
(*  - An object is a function whose DOMAIN is its set of own keys; an      *)
(*    absent optional field is a key that is not in the DOMAIN.            *)
(*  - A prop value is one of Null (null or undefined), Plain (a non-null   *)
(*    value without __unsafeFromQuery) and Query (an object whose          *)
(*    __unsafeFromQuery is truthy).                                        *)
(*  - Components are objects with identity: the registry holds component   *)
(*    ids and `components` is the heap that maps an id to its fields.      *)
(*  - Props reach the service from host components, so the reserved        *)
(*    element attributes (key, ref) are never among the prop keys.         *)
(***************************************************************************)
EXTENDS Integers, Sequences, FiniteSets, TLC

VARIABLES
  plugins,      \* this.plugins: the ordered plugin descriptors
  components,   \* heap of slot components: id -> fields
  pc,           \* "idle": no call in progress; "returned": ret holds a call's outcome
  ret,          \* the last call of the service with its arguments and outcome
  hooks,        \* per plugin position: state of the awaitable its init hook returned
  init,         \* state of the promise executeInit returned
  store,        \* the settings collection: a sequence of documents
  clock,        \* the time the store stamps documents with
  reply         \* the last call of the Setting model with its outcome

vars == <<plugins, components, pc, ret, hooks, init, store, clock, reply>>

---------------------------------------------------------------------------
(* Bounds of the model *)

MaxPlugins == 2     \* plugins in a registry
MaxSize == 2        \* largest size cap a caller passes
MaxInitPlugins == 3 \* plugins in a registry of the initialisation runs
MaxDocs == 2        \* documents in the settings collection at the start
MaxClock == 3       \* updates of the settings in one run

SlotNames == {"s", "t"}
CompIds == {"X", "Y"}
PropKeys == {"passthrough", "viewer", "config"}

Min(a, b) == IF a < b THEN a ELSE b

---------------------------------------------------------------------------
(* Values *)

Null == [t |-> "null"]
Plain == [t |-> "plain"]
Query == [t |-> "query"]
ConfigVal(pluginConfig) == [t |-> "config", v |-> pluginConfig]

\* talkPluginName of a component no plugin registered: the property is
\* undefined, and as an object key undefined reads the key "undefined".
NoName == "undefined"

\* const emptyConfig = {}
emptyConfig == <<>>

\* get(reduxState, 'config.plugin_config') || emptyConfig
PluginConfigOf(reduxState) ==
  IF "config" \in DOMAIN reduxState /\ "plugin_config" \in DOMAIN reduxState.config
  THEN reduxState.config.plugin_config
  ELSE emptyConfig

\* lodash pick: the entries of object whose key is among keys
pick(object, keys) == [k \in (DOMAIN object \cap keys) |-> object[k]]

\* withWarnings wraps each non-null value in a Proxy whose get trap returns
\* queryData[key][name]: reading through it yields the values of queryData.
\* The warnings are printed when a component later reads a wrapped value,
\* not by the call that builds the props.
withWarnings(component, queryData) == [k \in DOMAIN queryData |-> queryData[k]]

---------------------------------------------------------------------------
(* Prop composition *)

\* splitProps(props): a TypeError is thrown by props[k].__unsafeFromQuery
\* when passthrough is truthy and some prop is null or undefined.
splitProps(props) ==
  LET pass == "passthrough" \in DOMAIN props /\ props["passthrough"] # Null
      qk == IF pass THEN {k \in DOMAIN props : props[k] = Query} ELSE {}
  IN  IF pass /\ \E k \in DOMAIN props : props[k] = Null
      THEN [threw |-> TRUE, queryData |-> <<>>, rest |-> <<>>]
      ELSE [threw |-> FALSE,
            queryData |-> [k \in qk |-> props[k]],
            rest |-> [k \in (DOMAIN props \ qk) |-> props[k]]]

\* getSlotComponentProps with the fragments test dropped: all query data
\* is attached.
getSlotComponentProps_AllQueryData(component, reduxState, props, queryData) ==
  LET attached == withWarnings(component, queryData)
  IN  [k \in (DOMAIN props \cup {"config"} \cup DOMAIN attached) |->
         IF k \in DOMAIN attached THEN attached[k]
         ELSE IF k = "config" THEN ConfigVal(PluginConfigOf(reduxState))
         ELSE props[k]]

\* The module-level getSlotComponentProps(component, reduxState, props, queryData):
\* {...props, config: pluginConfig, ...(fragments ? pick(...) : withWarnings(...))}
getSlotComponentProps(component, reduxState, props, queryData) ==
  LET pluginConfig == PluginConfigOf(reduxState)
      attached == IF component.fragments.declared
                  THEN pick(queryData, component.fragments.keys)
                  ELSE withWarnings(component, queryData)
  IN  [k \in (DOMAIN props \cup {"config"} \cup DOMAIN attached) |->
         IF k \in DOMAIN attached THEN attached[k]
         ELSE IF k = "config" THEN ConfigVal(pluginConfig)
         ELSE props[k]]

\* component.mapStateToProps(reduxState), for the kinds of function modelled:
\*   "viewer": state => ({viewer: state.viewer})
mapStateToProps(kind, reduxState) ==
  [k \in {"viewer"} |->
     IF "viewer" \in DOMAIN reduxState THEN reduxState.viewer ELSE Null]

\* component.isExcluded(resolvedProps), for the kinds of function modelled:
\*   "always": () => true, "never": () => false,
\*   "noViewer": props => props.viewer == null
isExcluded(kind, resolvedProps) ==
  CASE kind = "always" -> TRUE
    [] kind = "never" -> FALSE
    [] kind = "noViewer" ->
         "viewer" \notin DOMAIN resolvedProps \/ resolvedProps.viewer = Null

\* The props isDisabled hands to component.isExcluded: the composed props,
\* overridden by component.mapStateToProps(reduxState) when it is defined.
resolveProps(component, reduxState, rest, queryData) ==
  LET base == getSlotComponentProps(component, reduxState, rest, queryData)
      extra == IF component.mapStateToProps # "absent"
               THEN mapStateToProps(component.mapStateToProps, reduxState)
               ELSE <<>>
  IN  [k \in (DOMAIN base \cup DOMAIN extra) |->
         IF k \in DOMAIN extra THEN extra[k] ELSE base[k]]

\* isDisabled with the two tests swapped: a component that defines
\* isExcluded is judged by it alone.
isDisabled_ExclusionFirst(component, pluginConfig, reduxState, rest, queryData) ==
  IF component.isExcluded # "absent"
  THEN isExcluded(component.isExcluded,
                  resolveProps(component, reduxState, rest, queryData))
  ELSE /\ component.talkPluginName \in DOMAIN pluginConfig
       /\ "disable_components" \in DOMAIN pluginConfig[component.talkPluginName]
       /\ pluginConfig[component.talkPluginName].disable_components

\* The closure isDisabled of getSlotElements.
isDisabled(component, pluginConfig, reduxState, rest, queryData) ==
  IF /\ component.talkPluginName \in DOMAIN pluginConfig
     /\ "disable_components" \in DOMAIN pluginConfig[component.talkPluginName]
     /\ pluginConfig[component.talkPluginName].disable_components
  THEN TRUE
  ELSE IF component.isExcluded # "absent"
  THEN isExcluded(component.isExcluded,
                  resolveProps(component, reduxState, rest, queryData))
  ELSE FALSE

---------------------------------------------------------------------------
(* The registry *)

HasSlot(o, slot) == "slots" \in DOMAIN o.module /\ slot \in DOMAIN o.module.slots

RECURSIVE flatten(_)
flatten(lists) ==
  IF lists = <<>> THEN <<>> ELSE Head(lists) \o flatten(Tail(lists))

\* SlotComponents with each plugin's list put in front of the lists
\* collected before it.
SlotComponents_LaterFirst(plugs, slot) ==
  LET with == SelectSeq(plugs, LAMBDA o : HasSlot(o, slot))
  IN  flatten([i \in 1..Len(with) |-> with[Len(with) + 1 - i].module.slots[slot]])

\* flatten(this.plugins.filter(o => o.module.slots && o.module.slots[slot])
\*                     .map(o => o.module.slots[slot]))
SlotComponents(plugs, slot) ==
  LET with == SelectSeq(plugs, LAMBDA o : HasSlot(o, slot))
  IN  flatten([i \in 1..Len(with) |-> with[i].module.slots[slot]])

Range(s) == {s[i] : i \in 1..Len(s)}

\* The components a plugin registers under any slot.
RegisteredBy(o) ==
  IF "slots" \in DOMAIN o.module
  THEN UNION {Range(o.module.slots[slot]) : slot \in DOMAIN o.module.slots}
  ELSE {}

\* addMetaDataToSlotComponents(plugins): in plugin order, every component a
\* plugin registers gets component.talkPluginName = plugin.name.
RECURSIVE addMetaDataToSlotComponents(_, _)
addMetaDataToSlotComponents(plugs, heap) ==
  IF plugs = <<>> THEN heap
  ELSE addMetaDataToSlotComponents(
         Tail(plugs),
         [c \in DOMAIN heap |->
            IF c \in RegisteredBy(Head(plugs))
            THEN [heap[c] EXCEPT !.talkPluginName = Head(plugs).name]
            ELSE heap[c]])

---------------------------------------------------------------------------
(* Slot resolution *)

\* The warning getSlotElements prints when the slot overflows its cap.
OverflowWarning(slot, size, got) == [slot |-> slot, size |-> size, got |-> got]

\* slots.slice(0, size) when size > 0, else slots
sliced(slots, size) ==
  IF size > 0 THEN SubSeq(slots, 1, Min(size, Len(slots))) ELSE slots

\* .map((component, i) => ({component, disabled: isDisabled(component), key: i}))
markDisabled(used, heap, pluginConfig, reduxState, rest, queryData) ==
  [i \in 1..Len(used) |->
     [component |-> used[i],
      disabled |-> isDisabled(heap[used[i]], pluginConfig, reduxState, rest, queryData),
      key |-> i - 1]]

\* .filter(o => !o.disabled)
keepEnabled(marked) == SelectSeq(marked, LAMBDA o : ~o.disabled)

\* createElements with the key taken from the position after the filter.
createElements_Renumbered(kept, heap, reduxState, rest, queryData) ==
  [j \in 1..Len(kept) |->
     [type |-> kept[j].component,
      key |-> j - 1,
      props |-> getSlotComponentProps(heap[kept[j].component], reduxState,
                                      rest, queryData)]]

\* .map(({component, key}) => React.createElement(component, {key, ...props}))
createElements(kept, heap, reduxState, rest, queryData) ==
  [j \in 1..Len(kept) |->
     [type |-> kept[j].component,
      key |-> kept[j].key,
      props |-> getSlotComponentProps(heap[kept[j].component], reduxState,
                                      rest, queryData)]]

\* PluginsService.getSlotElements(slot, reduxState, props, {size}).
\* evaluated lists the positions isDisabled was called on.
getSlotElements(plugs, heap, slot, reduxState, props, size) ==
  LET pluginConfig == PluginConfigOf(reduxState)
      sp == splitProps(props)
      slots == SlotComponents(plugs, slot)
      warned == IF size > 0 /\ Len(slots) > size
                THEN <<OverflowWarning(slot, size, Len(slots))>>
                ELSE <<>>
      marked == markDisabled(sliced(slots, size), heap, pluginConfig, reduxState,
                             sp.rest, sp.queryData)
  IN  IF sp.threw
      THEN [threw |-> TRUE, elements |-> <<>>, warnings |-> <<>>, evaluated |-> <<>>]
      ELSE [threw |-> FALSE,
            elements |-> createElements(keepEnabled(marked), heap, reduxState,
                                        sp.rest, sp.queryData),
            warnings |-> warned,
            evaluated |-> [i \in 1..Len(marked) |-> marked[i].key]]

\* isSlotEmpty that looks at the registered components only, not at
\* which of them are disabled.
isSlotEmpty_Registered(plugs, heap, slot, reduxState, props) ==
  [threw |-> splitProps(props).threw,
   empty |-> (~splitProps(props).threw /\ SlotComponents(plugs, slot) = <<>>)]

\* PluginsService.isSlotEmpty(slot, reduxState, props)
isSlotEmpty(plugs, heap, slot, reduxState, props) ==
  LET r == getSlotElements(plugs, heap, slot, reduxState, props, 0)
  IN  [threw |-> r.threw, empty |-> (~r.threw /\ Len(r.elements) = 0)]

\* PluginsService.getSlotComponentProps(component, reduxState, props)
getSlotComponentPropsMethod(component, reduxState, props) ==
  LET sp == splitProps(props)
  IN  IF sp.threw THEN [threw |-> TRUE, props |-> <<>>]
      ELSE [threw |-> FALSE,
            props |-> getSlotComponentProps(component, reduxState, sp.rest, sp.queryData)]

---------------------------------------------------------------------------
(* Aggregators *)

\* The positions of the plugins whose module defines field.
Having(plugs, field) == SelectSeq([i \in 1..Len(plugs) |-> i],
                                  LAMBDA i : field \in DOMAIN plugs[i].module)

\* lodash merge(object, source) on objects of objects of scalars: a key of
\* source whose value is an object is merged into object's value for the
\* key when that is an object, and else copied; object is the result.
merge2(object, source) ==
  [q \in (DOMAIN object \cup DOMAIN source) |->
     IF q \notin DOMAIN source THEN object[q]
     ELSE IF q \notin DOMAIN object THEN source[q]
     ELSE [f \in (DOMAIN object[q] \cup DOMAIN source[q]) |->
             IF f \in DOMAIN source[q] THEN source[q][f] ELSE object[q][f]]]

\* lodash merge(object, ...sources), sources applied from left to right.
RECURSIVE merge(_, _)
merge(object, sources) ==
  IF sources = <<>> THEN object
  ELSE merge(merge2(object, Head(sources)), Tail(sources))

\* lodash merge on objects whose values are functions: a value of source
\* replaces object's value for the key.
RECURSIVE assignAll(_, _)
assignAll(object, sources) ==
  IF sources = <<>> THEN object
  ELSE assignAll([k \in (DOMAIN object \cup DOMAIN Head(sources)) |->
                    IF k \in DOMAIN Head(sources) THEN Head(sources)[k]
                    ELSE object[k]],
                 Tail(sources))

\* PluginsService.getModQueueConfigs():
\* merge(...this.plugins.map(o => o.module.modQueues).filter(o => o)).
\* merge writes into its first argument, the modQueues object of the first
\* plugin that has one, and returns it.
getModQueueConfigs(plugs) ==
  LET at == Having(plugs, "modQueues")
      all == [k \in 1..Len(at) |-> plugs[at[k]].module.modQueues]
  IN  IF at = <<>> THEN [plugins |-> plugs, out |-> <<>>]
      ELSE LET merged == merge(Head(all), Tail(all))
           IN  [plugins |-> [plugs EXCEPT ![at[1]].module.modQueues = merged],
                out |-> merged]

\* PluginsService.getTranslations()
getTranslations(plugs) ==
  LET at == Having(plugs, "translations")
  IN  [k \in 1..Len(at) |-> plugs[at[k]].module.translations]

\* PluginsService.getGraphQLExtensions()
getGraphQLExtensions(plugs) ==
  LET picked == [i \in 1..Len(plugs) |->
                   pick(plugs[i].module, {"mutations", "queries", "fragments"})]
  IN  SelectSeq(picked, LAMBDA o : DOMAIN o # {})

\* helpers/camelize, on the plugin names of the model.
camelize(name) == IF name = "Foo Bar" THEN "fooBar" ELSE name

\* PluginsService.getReducers(): merge writes into the first of the fresh
\* objects {[camelize(o.name)]: o.module.reducer}.
getReducers(plugs) ==
  LET at == Having(plugs, "reducer")
      all == [k \in 1..Len(at) |->
                [n \in {camelize(plugs[at[k]].name)} |-> plugs[at[k]].module.reducer]]
  IN  IF at = <<>> THEN <<>> ELSE assignAll(Head(all), Tail(all))

\* lodash uniq: the first occurrence of each element, in order.
RECURSIVE uniq(_)
uniq(q) ==
  IF q = <<>> THEN <<>>
  ELSE LET front == uniq(SubSeq(q, 1, Len(q) - 1))
       IN  IF q[Len(q)] \in Range(front) THEN front ELSE Append(front, q[Len(q)])

\* PluginsService.getSlotFragments(slot, part): fragments[part] of the
\* slot's components that declare it.
getSlotFragments(plugs, heap, slot, part) ==
  LET cs == uniq(SlotComponents(plugs, slot))
      declaring == SelectSeq(cs, LAMBDA c : /\ heap[c].fragments.declared
                                            /\ part \in heap[c].fragments.keys)
  IN  [k \in 1..Len(declaring) |-> [fragment |-> part, of |-> declaring[k]]]

---------------------------------------------------------------------------
(* Initialisation hooks *)

\* The hooks before executeInit: "none" where the plugin declares no init.
HooksOf(plugs) ==
  [i \in 1..Len(plugs) |->
     [status |-> IF "init" \in DOMAIN plugs[i].module THEN "idle" ELSE "none",
      calls |-> 0]]

\* fn(context), for the kinds of hook modelled:
\*   "async": returns an awaitable that is still pending,
\*   "sync": returns a value that is no awaitable,
\*   "throws": throws before it returns.
invoke(kind) ==
  CASE kind = "async" -> "pending"
    [] kind = "sync" -> "fulfilled"
    [] kind = "throws" -> "threw"

\* .map(o => o.module.init).filter(fn => fn).map(fn => fn(context)), from
\* plugin i on: a hook that throws ends the loop.
RECURSIVE invokeHooks(_, _, _)
invokeHooks(plugs, hs, i) ==
  IF i > Len(plugs) THEN hs
  ELSE IF "init" \notin DOMAIN plugs[i].module THEN invokeHooks(plugs, hs, i + 1)
  ELSE LET st == invoke(plugs[i].module.init)
           called == [hs EXCEPT ![i] = [status |-> st, calls |-> @.calls + 1]]
       IN  IF st = "threw" THEN called ELSE invokeHooks(plugs, called, i + 1)

\* The awaitables (and values) collected in results.
Results(hs) == {i \in DOMAIN hs : hs[i].status \in {"pending", "fulfilled", "rejected"}}

\* Promise.all that fulfils as soon as one of the results is fulfilled.
PromiseAll_Any(hs) ==
  IF \E i \in Results(hs) : hs[i].status = "rejected" THEN "rejected"
  ELSE IF Results(hs) = {} \/ \E i \in Results(hs) : hs[i].status = "fulfilled"
  THEN "fulfilled"
  ELSE "pending"

\* Promise.all that waits for every result and ignores rejections.
PromiseAll_Settled(hs) ==
  IF \A i \in Results(hs) : hs[i].status # "pending" THEN "fulfilled" ELSE "pending"

\* Promise.all(results): rejected once a result is rejected, fulfilled
\* once all are fulfilled.
PromiseAll(hs) ==
  IF \E i \in Results(hs) : hs[i].status = "rejected" THEN "rejected"
  ELSE IF \A i \in Results(hs) : hs[i].status = "fulfilled" THEN "fulfilled"
  ELSE "pending"

---------------------------------------------------------------------------
(* Inputs *)

\* Position i of the registry holds the plugin named NameOf[i].
NameOf == <<"a", "b", "c", "d">>

\* The plugin names state.config.plugin_config may carry an entry for.
ConfiguredNames == {"a", "b"}

\* Non-empty sequences without repetition over S, of length at most n.
InjSeqs(S, n) ==
  UNION {{q \in [1..k -> S] : \A i, j \in 1..k : i # j => q[i] # q[j]} : k \in 1..n}

\* A component as its author wrote it (no talkPluginName yet).
FragmentChoices == {[declared |-> FALSE, keys |-> {}]}
                     \cup {[declared |-> TRUE, keys |-> K] : K \in SUBSET PropKeys}
ComponentDefs ==
  [talkPluginName : {NoName},
   fragments : FragmentChoices,
   isExcluded : {"absent", "always", "never", "noViewer"},
   mapStateToProps : {"absent", "viewer"}]

\* The components on the heap of the slot specifications.
PlainComponent ==
  [talkPluginName |-> NoName, fragments |-> [declared |-> FALSE, keys |-> {}],
   isExcluded |-> "absent", mapStateToProps |-> "absent"]
SlotComponentDefs ==
  {d \in ComponentDefs :
     /\ d.fragments \in {[declared |-> FALSE, keys |-> {}],
                         [declared |-> TRUE, keys |-> {"viewer"}]}
     /\ d.fragments.declared => d.isExcluded = "noViewer"
     /\ d.mapStateToProps = "viewer" =>
          d.isExcluded = "noViewer" /\ ~d.fragments.declared}

\* The lists a plugin registers under slot "s". The components X and Y
\* take the same definitions, so <<"Y", "X">> adds no case to <<"X", "Y">>;
\* the two orders across plugins are there.
SlotLists == {<<"X">>, <<"Y">>, <<"X", "Y">>}

\* The slots field of a plugin module: absent, or one slot with its list.
SlotModules ==
  {<<>>}
    \cup {[slots |-> [k \in {"s"} |-> q]] : q \in SlotLists}
    \cup {[slots |-> [k \in {"t"} |-> <<"X">>]]}

\* Registries of plugins that contribute nothing but slot components.
SlotRegistries ==
  UNION {{[i \in 1..n |-> [name |-> NameOf[i], module |-> m[i]]] :
            m \in [1..n -> SlotModules]} : n \in 0..MaxPlugins}

\* state.config.plugin_config: per plugin name no entry, or its
\* disable_components flag.
PluginConfigs ==
  UNION {[D -> {[disable_components |-> TRUE], [disable_components |-> FALSE]}] :
           D \in SUBSET ConfiguredNames}

ReduxStates ==
  {[config |-> <<>>, viewer |-> Plain]}
    \cup {[config |-> [plugin_config |-> c]] : c \in PluginConfigs}

\* Caller props.
PropsChoices ==
  UNION {[D -> {Null, Plain, Query}] : D \in SUBSET PropKeys}

\* Caller props of the slot resolutions.
SlotPropsChoices ==
  {p \in PropsChoices :
     /\ "config" \notin DOMAIN p
     /\ "passthrough" \in DOMAIN p => p["passthrough"] = Plain}

Sizes == 0..MaxSize

NoRet == [op |-> "none"]

---------------------------------------------------------------------------
(* Slot resolution: the service's calls as actions *)

InitSlots ==
  /\ \E reg \in SlotRegistries, heap \in [CompIds -> SlotComponentDefs] :
       /\ \A c \in CompIds : c \notin Range(SlotComponents(reg, "s")) => heap[c] = PlainComponent
       /\ plugins = reg
       /\ components = addMetaDataToSlotComponents(reg, heap)
  /\ pc = "idle"
  /\ ret = NoRet
  /\ hooks = HooksOf(plugins)
  /\ init = "none"
  /\ store = <<>>
  /\ clock = 0
  /\ reply = NoRet

ElementsCall(StateSet, PropsSet) ==
  /\ pc = "idle"
  /\ \E slot \in SlotNames, reduxState \in StateSet, props \in PropsSet,
        size \in Sizes :
       ret' = [op |-> "getSlotElements", slot |-> slot, reduxState |-> reduxState,
               props |-> props, size |-> size,
               out |-> getSlotElements(plugins, components, slot, reduxState, props, size)]
  /\ pc' = "returned"
  /\ UNCHANGED <<plugins, components, hooks, init, store, clock, reply>>

EmptyCall(StateSet, PropsSet) ==
  /\ pc = "idle"
  /\ \E slot \in SlotNames, reduxState \in StateSet, props \in PropsSet :
       ret' = [op |-> "isSlotEmpty", slot |-> slot, reduxState |-> reduxState,
               props |-> props,
               out |-> isSlotEmpty(plugins, components, slot, reduxState, props)]
  /\ pc' = "returned"
  /\ UNCHANGED <<plugins, components, hooks, init, store, clock, reply>>

PropsCall(StateSet, PropsSet) ==
  /\ pc = "idle"
  /\ \E c \in CompIds, reduxState \in StateSet, props \in PropsSet :
       ret' = [op |-> "getSlotComponentProps", component |-> c,
               reduxState |-> reduxState, props |-> props,
               out |-> getSlotComponentPropsMethod(components[c], reduxState, props)]
  /\ pc' = "returned"
  /\ UNCHANGED <<plugins, components, hooks, init, store, clock, reply>>

\* The caller takes the outcome; the service is ready for the next call.
Return ==
  /\ pc = "returned"
  /\ pc' = "idle"
  /\ ret' = NoRet
  /\ UNCHANGED <<plugins, components, hooks, init, store, clock, reply>>

GetSlotElements == ElementsCall(ReduxStates, SlotPropsChoices)

IsSlotEmpty == EmptyCall(ReduxStates, SlotPropsChoices)

NextSlots == GetSlotElements \/ IsSlotEmpty \/ Return

Spec == InitSlots /\ [][NextSlots]_vars

---------------------------------------------------------------------------
(* Prop composition: one plugin, components with any declared fragments,
   callers passing any props *)

FragmentComponentDefs ==
  {d \in ComponentDefs : d.isExcluded = "absent" /\ d.mapStateToProps = "absent"}

InitProps ==
  /\ \E q \in InjSeqs(CompIds, Cardinality(CompIds)),
        heap \in [CompIds -> FragmentComponentDefs] :
       /\ plugins = <<[name |-> "a", module |-> [slots |-> [k \in {"s"} |-> q]]]>>
       /\ components = addMetaDataToSlotComponents(plugins, heap)
  /\ pc = "idle"
  /\ ret = NoRet
  /\ hooks = HooksOf(plugins)
  /\ init = "none"
  /\ store = <<>>
  /\ clock = 0
  /\ reply = NoRet

GetSlotComponentProps == PropsCall(ReduxStates, PropsChoices)

GetSlotElementsAnyProps == ElementsCall(ReduxStates, PropsChoices)

NextProps == GetSlotComponentProps \/ GetSlotElementsAnyProps \/ Return

SpecProps == InitProps /\ [][NextProps]_vars

---------------------------------------------------------------------------
(* Initialisation: executeInit and the hooks it waits for *)

HookKinds == {"async", "sync", "throws"}

InitRegistries ==
  UNION {{[i \in 1..n |-> [name |-> NameOf[i], module |-> m[i]]] :
            m \in [1..n -> {<<>>} \cup {[init |-> k] : k \in HookKinds}]} :
           n \in 0..MaxInitPlugins}

InitHooks ==
  /\ plugins \in InitRegistries
  /\ components = [c \in CompIds |-> PlainComponent]
  /\ pc = "idle"
  /\ ret = NoRet
  /\ hooks = HooksOf(plugins)
  /\ init = "none"
  /\ store = <<>>
  /\ clock = 0
  /\ reply = NoRet

\* PluginsService.executeInit(context), up to its await: every hook is
\* invoked; a throw rejects the promise executeInit returns.
ExecuteInit ==
  /\ init = "none"
  /\ hooks' = invokeHooks(plugins, hooks, 1)
  /\ init' = IF \E i \in DOMAIN hooks' : hooks'[i].status = "threw"
             THEN "rejected" ELSE "pending"
  /\ UNCHANGED <<plugins, components, pc, ret, store, clock, reply>>

\* The awaitable of plugin i's hook is fulfilled.
HookResolves(i) ==
  /\ hooks[i].status = "pending"
  /\ hooks' = [hooks EXCEPT ![i].status = "fulfilled"]
  /\ UNCHANGED <<plugins, components, pc, ret, init, store, clock, reply>>

\* The awaitable of plugin i's hook is rejected.
HookRejects(i) ==
  /\ hooks[i].status = "pending"
  /\ hooks' = [hooks EXCEPT ![i].status = "rejected"]
  /\ UNCHANGED <<plugins, components, pc, ret, init, store, clock, reply>>

\* await Promise.all(results) settles, and with it executeInit.
InitSettles ==
  /\ init = "pending"
  /\ PromiseAll(hooks) # "pending"
  /\ init' = PromiseAll(hooks)
  /\ UNCHANGED <<plugins, components, pc, ret, hooks, store, clock, reply>>

HookSettles == \E i \in DOMAIN hooks : HookResolves(i) \/ HookRejects(i)

NextInit == ExecuteInit \/ HookSettles \/ InitSettles

\* The job queue runs the reaction of a settled Promise.all; nothing makes
\* a hook's awaitable settle.
SpecInit == InitHooks /\ [][NextInit]_vars /\ WF_vars(InitSettles)

---------------------------------------------------------------------------
(* The whole service on registries of plugins of every kind *)

\* Position i of these registries holds the plugin named ServiceNameOf[i].
ServiceNameOf == <<"Foo Bar", "baz", "a", "b">>

QueueConfigs == {[name |-> "v1"], [name |-> "v2"], [icon |-> "v1"]}
ModQueueChoices ==
  UNION {[D -> QueueConfigs] : D \in (SUBSET {"new", "reported"}) \ {{}}}

\* What plugin i contributes besides modQueues.
Contributions(i) ==
  [slots |-> [k \in {"s"} |-> <<"X", "Y">>],
   reducer |-> [fn |-> "reducer", of |-> i],
   mutations |-> [doc |-> "mutations", of |-> i],
   translations |-> [bundle |-> "translations", of |-> i],
   init |-> "async"]

ServiceModules(i) ==
  {<<>>, Contributions(i)}
    \cup {[modQueues |-> mq] : mq \in ModQueueChoices}
    \cup {[f \in DOMAIN Contributions(i) \cup {"modQueues"} |->
             IF f = "modQueues" THEN mq ELSE Contributions(i)[f]] :
            mq \in ModQueueChoices}

ServiceRegistries ==
  UNION {{reg \in [1..n -> UNION {[name : {ServiceNameOf[i]}, module : ServiceModules(i)] :
                                     i \in 1..n}] :
            \A i \in 1..n : reg[i].name = ServiceNameOf[i]} : n \in 0..MaxPlugins}

ServiceComponents ==
  [c \in CompIds |->
     IF c = "X"
     THEN [PlainComponent EXCEPT !.fragments = [declared |-> TRUE, keys |-> {"viewer"}]]
     ELSE PlainComponent]

ServiceStates == {[config |-> <<>>, viewer |-> Plain],
                  [config |-> [plugin_config |-> [n \in {"baz"} |->
                                                    [disable_components |-> TRUE]]]]}
ServiceProps == {<<>>, [k \in {"passthrough", "viewer"} |-> Query]}

InitService ==
  /\ plugins \in ServiceRegistries
  /\ components = addMetaDataToSlotComponents(plugins, ServiceComponents)
  /\ pc = "idle"
  /\ ret = NoRet
  /\ hooks = HooksOf(plugins)
  /\ init = "none"
  /\ store = <<>>
  /\ clock = 0
  /\ reply = NoRet

GetSlotFragments ==
  /\ pc = "idle"
  /\ \E slot \in SlotNames, part \in {"viewer", "config"} :
       ret' = [op |-> "getSlotFragments", slot |-> slot, part |-> part,
               out |-> getSlotFragments(plugins, components, slot, part)]
  /\ pc' = "returned"
  /\ UNCHANGED <<plugins, components, hooks, init, store, clock, reply>>

GetGraphQLExtensions ==
  /\ pc = "idle"
  /\ ret' = [op |-> "getGraphQLExtensions", out |-> getGraphQLExtensions(plugins)]
  /\ pc' = "returned"
  /\ UNCHANGED <<plugins, components, hooks, init, store, clock, reply>>

GetModQueueConfigs ==
  /\ pc = "idle"
  /\ ret' = [op |-> "getModQueueConfigs", out |-> getModQueueConfigs(plugins).out]
  /\ plugins' = getModQueueConfigs(plugins).plugins
  /\ pc' = "returned"
  /\ UNCHANGED <<components, hooks, init, store, clock, reply>>

GetTranslations ==
  /\ pc = "idle"
  /\ ret' = [op |-> "getTranslations", out |-> getTranslations(plugins)]
  /\ pc' = "returned"
  /\ UNCHANGED <<plugins, components, hooks, init, store, clock, reply>>

GetReducers ==
  /\ pc = "idle"
  /\ ret' = [op |-> "getReducers", out |-> getReducers(plugins)]
  /\ pc' = "returned"
  /\ UNCHANGED <<plugins, components, hooks, init, store, clock, reply>>

ServiceGetSlotElements == ElementsCall(ServiceStates, ServiceProps)
ServiceIsSlotEmpty == EmptyCall(ServiceStates, ServiceProps)
ServiceGetSlotComponentProps == PropsCall(ServiceStates, ServiceProps)

NextService ==
  \/ ServiceGetSlotElements
  \/ ServiceIsSlotEmpty
  \/ ServiceGetSlotComponentProps
  \/ GetSlotFragments
  \/ GetGraphQLExtensions
  \/ GetModQueueConfigs
  \/ GetTranslations
  \/ GetReducers
  \/ ExecuteInit
  \/ HookSettles
  \/ InitSettles
  \/ Return

SpecService == InitService /\ [][NextService]_vars

---------------------------------------------------------------------------
(* The Setting model *)

NoDoc == [t |-> "null"]

\* The position of the first document that matches {id: '1'}, 0 if none.
findOne(docs, id) ==
  IF \E i \in 1..Len(docs) : docs[i].id = id
  THEN CHOOSE i \in 1..Len(docs) :
         docs[i].id = id /\ \A j \in 1..(i - 1) : docs[j].id # id
  ELSE 0

\* {$set: setting} on a document; the timestamps option stamps updated_at.
applySet(doc, setting, now) ==
  [f \in DOMAIN doc |->
     IF f \in DOMAIN setting THEN setting[f]
     ELSE IF f = "updated_at" THEN now
     ELSE doc[f]]

\* updateSettings that passes upsert: true: without a match a document
\* with the schema's defaults is inserted and updated.
updateSettings_Upsert(docs, setting, now) ==
  LET i == findOne(docs, "1")
      fresh == applySet([id |-> "1", moderation |-> "pre", created_at |-> now,
                         updated_at |-> now], setting, now)
  IN  IF i = 0
      THEN [store |-> Append(docs, fresh), out |-> fresh]
      ELSE [store |-> [docs EXCEPT ![i] = applySet(docs[i], setting, now)],
            out |-> applySet(docs[i], setting, now)]

\* Setting.updateSettings(setting):
\* this.findOneAndUpdate({id: '1'}, {$set: setting}, {new: true})
updateSettings(docs, setting, now) ==
  LET i == findOne(docs, "1")
  IN  IF i = 0
      THEN [store |-> docs, out |-> NoDoc]
      ELSE [store |-> [docs EXCEPT ![i] = applySet(docs[i], setting, now)],
            out |-> applySet(docs[i], setting, now)]

\* Setting.getSettings(): this.findOne()
getSettings(docs) == IF docs = <<>> THEN NoDoc ELSE docs[1]

Ids == {"1", "2"}
Moderations == {"pre", "post"}

\* Documents as they are before any update of the run.
StoredDocs ==
  [id : Ids, moderation : Moderations, created_at : {0}, updated_at : {0}]

\* The partial settings a caller passes.
Partials ==
  UNION {[D -> Ids \cup Moderations] : D \in SUBSET {"id", "moderation"}}
SettingsChoices ==
  {u \in Partials :
     /\ "id" \in DOMAIN u => u["id"] \in Ids
     /\ "moderation" \in DOMAIN u => u["moderation"] \in Moderations}

InitSettings ==
  /\ plugins = <<>>
  /\ components = [c \in CompIds |-> PlainComponent]
  /\ pc = "idle"
  /\ ret = NoRet
  /\ hooks = HooksOf(plugins)
  /\ init = "none"
  /\ store \in UNION {[1..n -> StoredDocs] : n \in 0..MaxDocs}
  /\ clock = 0
  /\ reply = NoRet

UpdateSettings ==
  /\ clock < MaxClock
  /\ \E setting \in SettingsChoices :
       LET r == updateSettings(store, setting, clock + 1)
       IN  /\ store' = r.store
           /\ reply' = [op |-> "updateSettings", setting |-> setting,
                        before |-> store, out |-> r.out]
  /\ clock' = clock + 1
  /\ UNCHANGED <<plugins, components, pc, ret, hooks, init>>

GetSettings ==
  /\ reply' = [op |-> "getSettings", out |-> getSettings(store)]
  /\ UNCHANGED <<plugins, components, pc, ret, hooks, init, store, clock>>

NextSettings == UpdateSettings \/ GetSettings

SpecSettings == InitSettings /\ [][NextSettings]_vars

---------------------------------------------------------------------------
(* Properties of slot resolution *)

IsElementsCall == ret.op = "getSlotElements"
Returned == IsElementsCall /\ ~ret.out.threw

\* The components collected for the slot of the call, in registration order.
Collected == SlotComponents(plugins, ret.slot)

\* The plugin-specific config of the component's owning plugin sets
\* disable_components.
DisabledByConfig(c, reduxState) ==
  LET pluginConfig == PluginConfigOf(reduxState)
      owner == components[c].talkPluginName
  IN  /\ owner \in DOMAIN pluginConfig
      /\ "disable_components" \in DOMAIN pluginConfig[owner]
      /\ pluginConfig[owner].disable_components

\* C1: a component whose owning plugin's config sets disable_components is
\* never among the elements getSlotElements returns, whatever its isExcluded
\* is or returns.
C1_DisabledNeverRendered ==
  Returned =>
    \A j \in 1..Len(ret.out.elements) :
      ~DisabledByConfig(ret.out.elements[j].type, ret.reduxState)

\* A call that returned elements while leaving out a collected component
\* whose plugin is disabled and whose isExcluded is absent or returns false.
C1_Witness ==
  /\ Returned
  /\ Len(ret.out.elements) > 0
  /\ \E i \in 1..Len(Collected) :
       /\ DisabledByConfig(Collected[i], ret.reduxState)
       /\ components[Collected[i]].isExcluded \in {"absent", "never"}
  /\ \E i \in 1..Len(Collected) :
       /\ DisabledByConfig(Collected[i], ret.reduxState)
       /\ components[Collected[i]].isExcluded = "never"

\* C3 (as claimed): with a cap N > 0 and M > N collected components only
\* the first N are considered, exactly one overflow warning is printed and
\* the call does not throw; with M <= N no warning is printed.
C3_CapTruncatesAndWarnsOnce ==
  (IsElementsCall /\ ret.size > 0) =>
    LET M == Len(Collected)
        N == ret.size
    IN  /\ M > N =>
             /\ ~ret.out.threw
             /\ ret.out.warnings = <<OverflowWarning(ret.slot, N, M)>>
             /\ ret.out.evaluated = [i \in 1..N |-> i - 1]
             /\ \A j \in 1..Len(ret.out.elements) : ret.out.elements[j].key < N
        /\ M <= N => ret.out.warnings = <<>>

\* C4: the key of an element is the position of its component in the
\* collected sequence (before disabled components are removed), so it does
\* not depend on which components the state and props disable, and no two
\* elements of a result share a key.
C4_KeyIsCollectedPosition ==
  Returned =>
    /\ \A j \in 1..Len(ret.out.elements) :
         LET e == ret.out.elements[j]
         IN  /\ e.key \in 0..(Len(Collected) - 1)
             /\ Collected[e.key + 1] = e.type
    /\ \A j, k \in 1..Len(ret.out.elements) :
         j # k => ret.out.elements[j].key # ret.out.elements[k].key

\* A result in which an element's key differs from its position in the
\* result, because a component before it was removed.
C4_Witness ==
  /\ Returned
  /\ \E j \in 1..Len(ret.out.elements) : ret.out.elements[j].key # j - 1

\* The collected components are all disabled or excluded under the call's
\* state and props.
AllDisabled(slot, reduxState, props) ==
  LET sp == splitProps(props)
      slots == SlotComponents(plugins, slot)
  IN  \A i \in 1..Len(slots) :
        isDisabled(components[slots[i]], PluginConfigOf(reduxState), reduxState,
                   sp.rest, sp.queryData)

\* C5 (as claimed): isSlotEmpty is true iff getSlotElements yields no
\* element for the same slot, state and props, under every size cap.
C5_EmptyIffNoElementsAnyCap ==
  (ret.op = "isSlotEmpty" /\ ~ret.out.threw) =>
    \A size \in Sizes :
      ret.out.empty <=>
        (Len(getSlotElements(plugins, components, ret.slot, ret.reduxState,
                             ret.props, size).elements) = 0)

\* C5 (amended): isSlotEmpty is true iff getSlotElements without a size cap
\* yields no element, that is iff every collected component is disabled or
\* excluded; it throws exactly when that resolution throws, and a slot
\* without registered components is empty.
C5_EmptyIffNoElementsUncapped ==
  ret.op = "isSlotEmpty" =>
    LET r == getSlotElements(plugins, components, ret.slot, ret.reduxState,
                             ret.props, 0)
    IN  /\ ret.out.threw = r.threw
        /\ ~ret.out.threw =>
             /\ ret.out.empty <=> (Len(r.elements) = 0)
             /\ ret.out.empty <=> AllDisabled(ret.slot, ret.reduxState, ret.props)
             /\ Collected = <<>> => ret.out.empty

\* isSlotEmpty answered true for a slot with registered components, all
\* of them disabled or excluded.
C5_Witness ==
  /\ ret.op = "isSlotEmpty"
  /\ ~ret.out.threw
  /\ ret.out.empty
  /\ Len(Collected) > 1

\* The plugin and the place in that plugin's list that position pos
\* (counted from 1) of the slot's registration order stands for.
RECURSIVE Origin(_, _, _)
Origin(slot, pos, p) ==
  IF p > Len(plugins) THEN <<0, 0>>
  ELSE LET n == IF HasSlot(plugins[p], slot)
                THEN Len(plugins[p].module.slots[slot]) ELSE 0
       IN  IF pos <= n THEN <<p, pos>> ELSE Origin(slot, pos - n, p + 1)

\* C10: the elements are in registration order: plugin order first, then
\* the order of the plugin's own list; removing disabled components keeps
\* the order of the others, and the keys are strictly increasing.
C10_RegistrationOrder ==
  Returned =>
    /\ \A j \in 1..Len(ret.out.elements) :
         LET e == ret.out.elements[j]
             o == Origin(ret.slot, e.key + 1, 1)
         IN  /\ o[1] \in 1..Len(plugins)
             /\ plugins[o[1]].module.slots[ret.slot][o[2]] = e.type
    /\ \A j, k \in 1..Len(ret.out.elements) :
         j < k =>
           LET oj == Origin(ret.slot, ret.out.elements[j].key + 1, 1)
               ok == Origin(ret.slot, ret.out.elements[k].key + 1, 1)
           IN  /\ ret.out.elements[j].key < ret.out.elements[k].key
               /\ oj[1] < ok[1] \/ (oj[1] = ok[1] /\ oj[2] < ok[2])

\* Elements of two plugins returned without a cap, with a component that
\* was registered between them removed.
C10_Witness ==
  /\ Returned
  /\ ret.size = 0
  /\ Len(ret.out.elements) >= 2
  /\ \E j \in 1..(Len(ret.out.elements) - 1) :
       /\ ret.out.elements[j + 1].key > ret.out.elements[j].key + 1
       /\ Origin(ret.slot, ret.out.elements[j].key + 1, 1)[1]
            # Origin(ret.slot, ret.out.elements[j + 1].key + 1, 1)[1]

---------------------------------------------------------------------------
(* Properties of prop composition *)

\* The keys splitProps moves to queryData: the flagged props of a caller
\* that passes a truthy passthrough.
QueryKeys(props) ==
  IF "passthrough" \in DOMAIN props /\ props["passthrough"] # Null
  THEN {k \in DOMAIN props : props[k] = Query}
  ELSE {}

\* C2 (as claimed), for a component that declares fragments F: of the
\* query entries exactly those with a key in F are in the composed props,
\* with every other caller prop and config = state.config.plugin_config.
AsClaimedC2(component, reduxState, props, composed) ==
  component.fragments.declared =>
    LET F == component.fragments.keys
        Q == QueryKeys(props)
    IN  /\ \A k \in Q : k \in F <=> (k \in DOMAIN composed /\ composed[k] = props[k])
        /\ \A k \in (DOMAIN props \ Q) \ {"config"} :
             k \in DOMAIN composed /\ composed[k] = props[k]
        /\ "config" \in DOMAIN composed
        /\ composed["config"] = ConfigVal(PluginConfigOf(reduxState))

C2_ExactlyDeclaredQueryData ==
  /\ (ret.op = "getSlotComponentProps" /\ ~ret.out.threw) =>
       AsClaimedC2(components[ret.component], ret.reduxState, ret.props,
                   ret.out.props)
  /\ Returned =>
       \A j \in 1..Len(ret.out.elements) :
         AsClaimedC2(components[ret.out.elements[j].type], ret.reduxState,
                     ret.props, ret.out.elements[j].props)

\* C2 (amended), for a component that declares fragments F: the composed
\* props hold the query entries with a key in F; config, equal to
\* state.config.plugin_config (or the empty object), unless a query entry
\* named config is declared in F; every other caller prop that is not a
\* query entry; and nothing else.
AsAmendedC2(component, reduxState, props, composed) ==
  component.fragments.declared =>
    LET F == component.fragments.keys
        Q == QueryKeys(props)
    IN  /\ DOMAIN composed = (Q \cap F) \cup {"config"} \cup (DOMAIN props \ Q)
        /\ \A k \in DOMAIN composed :
             composed[k] = IF k \in Q \cap F THEN props[k]
                           ELSE IF k = "config"
                                THEN ConfigVal(PluginConfigOf(reduxState))
                                ELSE props[k]

C2_DeclaredQueryDataThenConfig ==
  /\ (ret.op = "getSlotComponentProps" /\ ~ret.out.threw) =>
       AsAmendedC2(components[ret.component], ret.reduxState, ret.props,
                   ret.out.props)
  /\ Returned =>
       \A j \in 1..Len(ret.out.elements) :
         AsAmendedC2(components[ret.out.elements[j].type], ret.reduxState,
                     ret.props, ret.out.elements[j].props)

\* Props composed for a component with fragments, from caller props with a
\* declared query entry, an undeclared query entry and another prop.
C2_Witness ==
  /\ ret.op = "getSlotComponentProps"
  /\ ~ret.out.threw
  /\ components[ret.component].fragments.declared
  /\ QueryKeys(ret.props) \cap components[ret.component].fragments.keys # {}
  /\ QueryKeys(ret.props) \ components[ret.component].fragments.keys # {}
  /\ DOMAIN ret.props \ QueryKeys(ret.props) # {"passthrough"}
  /\ PluginConfigOf(ret.reduxState) # emptyConfig

---------------------------------------------------------------------------
(* Properties of initialisation *)

Declared == {i \in DOMAIN plugins : "init" \in DOMAIN plugins[i].module}
Invoked == {i \in Declared : hooks[i].calls > 0}
Completed(i) == hooks[i].status \in {"fulfilled", "rejected", "threw"}
Failed(i) == hooks[i].status \in {"rejected", "threw"}

\* C6 (as claimed): executeInit invokes every declared hook exactly once
\* before it waits, and it completes, successfully or not, only after
\* every invoked hook has completed.
C6_CompletesAfterAllHooks ==
  init # "none" =>
    /\ \A i \in Declared : hooks[i].calls = 1
    /\ init \in {"fulfilled", "rejected"} => \A i \in Invoked : Completed(i)

\* C6 (amended): executeInit invokes the declared hooks in plugin order,
\* each once, up to and including the first that throws (all of them when
\* none throws), before it waits; it completes successfully only after
\* every declared hook was invoked and completed successfully, so never
\* while a hook is pending; it fails once a hook has thrown or been
\* rejected, without waiting for the hooks still pending.
C6_SucceedsAfterAllHooks ==
  init # "none" =>
    /\ \A i \in Declared :
         /\ hooks[i].calls <= 1
         /\ hooks[i].calls = 1 <=>
              ~\E j \in Declared : j < i /\ hooks[j].status = "threw"
    /\ init = "fulfilled" => \A i \in Declared : hooks[i].status = "fulfilled"
    /\ init = "rejected" => \E i \in Invoked : Failed(i)
    /\ init = "pending" => \A i \in Declared : hooks[i].status # "idle"

\* executeInit completed successfully after it had invoked the hooks of
\* three plugins, two of which returned an awaitable.
C6_Witness ==
  /\ init = "fulfilled"
  /\ Cardinality(Invoked) = 3
  /\ Cardinality({i \in Invoked : plugins[i].module.init = "async"}) = 2

\* C7: executeInit never completes successfully once a hook has failed, it
\* fails once a hook has been found rejected, and it completes successfully
\* whenever all hooks complete successfully (also when there is none).
C7_FailsIffSomeHookFails ==
  /\ [](init = "fulfilled" => ~\E i \in Invoked : Failed(i))
  /\ (\E i \in Invoked : Failed(i)) ~> (init = "rejected")
  /\ (init # "none" /\ \A i \in Declared : hooks[i].status = "fulfilled")
       ~> (init = "fulfilled")

\* executeInit failed on a rejected awaitable after the awaitable of
\* another hook had been fulfilled.
C7_Witness ==
  /\ init = "rejected"
  /\ \E i \in Invoked : hooks[i].status = "rejected"
  /\ \E i \in Invoked : hooks[i].status = "fulfilled" /\ plugins[i].module.init = "async"

---------------------------------------------------------------------------
(* Properties of the Setting model *)

Updated == reply.op = "updateSettings"

\* C8 (as claimed): after updateSettings(partial), from any store, the
\* store holds exactly one record, with id '1' and partial's values, and
\* that record is what the call returned.
C8_UpsertsTheOneRecord ==
  Updated =>
    /\ Len(store) = 1
    /\ store[1].id = "1"
    /\ \A f \in DOMAIN reply.setting : store[1][f] = reply.setting[f]
    /\ reply.out = store[1]

\* C8 (amended): updateSettings(partial) updates the first record with id
\* '1' when there is one: its fields named in partial take partial's values,
\* its other fields but updated_at stay, and the record after the update is
\* returned. Without such a record (so on the empty store) nothing is
\* created and null is returned. No call changes the number of records or
\* another record.
C8_UpdatesTheRecordIfAny ==
  Updated =>
    LET i == findOne(reply.before, "1")
    IN  /\ Len(store) = Len(reply.before)
        /\ \A j \in 1..Len(store) : j # i => store[j] = reply.before[j]
        /\ i = 0 => reply.out = NoDoc
        /\ i # 0 =>
             /\ reply.out = store[i]
             /\ \A f \in DOMAIN reply.setting : store[i][f] = reply.setting[f]
             /\ \A f \in DOMAIN store[i] \ (DOMAIN reply.setting \cup {"updated_at"}) :
                  store[i][f] = reply.before[i][f]

\* An update that changed the moderation of the record with id '1' in a
\* store of two records.
C8_Witness ==
  /\ Updated
  /\ findOne(reply.before, "1") # 0
  /\ "moderation" \in DOMAIN reply.setting
  /\ reply.out.moderation # reply.before[findOne(reply.before, "1")].moderation
  /\ Len(store) = 2

---------------------------------------------------------------------------
(* Properties of the registry *)

\* C9: no call of the service changes the plugin sequence, a plugin
\* module's contents or a slot component after construction.
C9_RegistryNeverChanges ==
  [][plugins' = plugins /\ components' = components]_vars

=============================================================================
